---- MODULE Spec2Model ----
\* ESP32 telemetry sender (src/sender.cpp): the link-reliability state machine.
\* Two execution contexts share the globals: "main" (setup() then loop(), the
\* Arduino task) and "cb" (OnDataSent, run by the radio task for every
\* delivery outcome).  Every statement that reads or writes shared state is one
\* step, so the two contexts interleave between any two statements.
EXTENDS Integers, Sequences, FiniteSets, TLC

\* ---------------------------------------------------------------- constants
SEND_INTERVAL == 12000
MAX_INIT_RETRIES == 3
RESET_EVERY == 5
\* unsigned long is 32 bits wide on the ESP32: millis(), currentTime and
\* lastSendTime wrap at 2^32
TickBits == 32

\* ---------------------------------------------------------------- bounds
\* real time covered, in send intervals
MaxIntervals == 6
\* number of esp_now_send calls
MaxSends == 6
\* transmissions accepted by the radio whose outcome is not yet reported
MaxPending == 2
\* outcomes handed to OnDataSent when the handler is exercised on its own
MaxOutcomes == 10
\* initESPNow calls when the bring-up is exercised on its own
MaxInitCalls == 3

Procs == {"main", "cb"}

\* A tick is an unsigned TickBits-bit number, kept as <<high half, low half>>
\* (TLC's integers are narrower than 2^32); the operators below are the
\* unsigned arithmetic of the target on such numbers.
Half == 2 ^ (TickBits \div 2)
Tick(n) == <<(n \div Half) % Half, n % Half>>
\* a + b mod 2^TickBits
TickAdd(a, b) ==
  <<(a[1] + b[1] + (a[2] + b[2]) \div Half) % Half, (a[2] + b[2]) % Half>>
\* a - b mod 2^TickBits
TickSub(a, b) ==
  LET borrow == IF a[2] < b[2] THEN 1 ELSE 0
  IN  <<(a[1] - b[1] - borrow + 2 * Half) % Half, (a[2] - b[2] + Half) % Half>>
\* a < b, unsigned
TickLess(a, b) == a[1] < b[1] \/ (a[1] = b[1] /\ a[2] < b[2])
\* elapsed milliseconds between two consecutive millis() observations of loop()
TickSteps == {0, SEND_INTERVAL \div 3, SEND_INTERVAL}
\* millis() at the moment the device is first observed: just booted, or up for
\* almost 2^32 ms
StartTicks == {<<0, 0>>, <<Half - 1, Half - SEND_INTERVAL \div 2>>}
\* a jump of a quarter of the tick range (used only where ticks advance forever)
QuarterRange == <<Half \div 4, 0>>
\* what the DHT22 driver returns: a fault (NaN, written <<>>) or a valid
\* value v (written <<v>>)
NaN == <<>>
TempReadings == {NaN, <<30>>}
HumReadings == {NaN, <<40>>}

VARIABLES
  pc,               \* [Procs -> label]: position of each context
  espNowConnected,  \* line 45
  lastSendTime,     \* line 46
  successCount,     \* line 47
  failureCount,     \* line 48
  sensorData,       \* line 43: the fields readSensors guards (temperature, humidity)
  now,              \* millis()
  currentTime,      \* loop() local, line 327
  attempt,          \* setup() local, line 284
  initSuccess,      \* setup() local, line 283
  initRes,          \* [Procs -> BOOLEAN]: value returned by initESPNow
  tmp,              \* [Procs -> Int]: register holding a counter during ++ (0 when free)
  stackInit,        \* ESP-NOW stack initialised (esp_now_init / esp_now_deinit)
  cbRegistered,     \* send callback registered
  peers,            \* number of entries for serverAddress in the peer list
  pending,          \* accepted transmissions awaiting their outcome
  dht,              \* readSensors() locals <<temp, hum>>, lines 69-70 (<<>> outside)
  \* ---- history variables (record what happened; never read by the program)
  ticks,            \* real ms elapsed since the first state
  sends,            \* esp_now_send calls so far
  outcomes,         \* delivery outcomes handed to OnDataSent so far
  rejects,          \* esp_now_send calls rejected synchronously so far
  resets,           \* esp_now_deinit calls made by OnDataSent so far
  crossings,        \* times failureCount became a positive multiple of 5
  initResults,      \* results of the initESPNow calls of the running setup()
  backoffs,         \* delay(2000) calls of the running setup()
  lastEvent,        \* "none" | "ok" | "fail": last initESPNow result / outcome
  resetTrace,       \* steps of the reset performed by the current/last callback
  sinceFire,        \* real ms since the tick of the last firing (-1: none yet)
  gap,              \* sinceFire at the last firing (-1: it was the first)
  lastFireTick,     \* tick of the last firing (0 before the first)
  firedThisIter,    \* the current loop iteration fired a send cycle
  cycleTrace        \* what the current loop iteration's send cycle has done

vars == <<pc, espNowConnected, lastSendTime, successCount, failureCount,
          sensorData, now, currentTime, attempt, initSuccess, initRes, tmp,
          stackInit, cbRegistered, peers, pending, dht, ticks, sends,
          outcomes, rejects, resets, crossings, initResults, backoffs,
          lastEvent, resetTrace, sinceFire, gap, lastFireTick, firedThisIter,
          cycleTrace>>

histVars == <<ticks, sends, outcomes, rejects, resets, crossings, initResults,
              backoffs, lastEvent, resetTrace, sinceFire, gap, lastFireTick,
              firedThisIter, cycleTrace>>

Min(a, b) == IF a <= b THEN a ELSE b
Goto(self, label) == pc' = [pc EXCEPT ![self] = label]

\* the state after the globals' initialisers (lines 42-48), setup() about to
\* run its retry loop; spent is the part of the time budget already used
InitWith(spent) ==
  /\ pc = [p \in Procs |-> IF p = "main" THEN "setup_283" ELSE "cb_idle"]
  /\ espNowConnected = FALSE
  /\ lastSendTime = Tick(0)
  /\ successCount = 0
  /\ failureCount = 0
  /\ sensorData = [temperature |-> 0, humidity |-> 0]
  /\ now \in StartTicks
  /\ currentTime = Tick(0)
  /\ attempt = 0
  /\ initSuccess = FALSE
  /\ initRes = [p \in Procs |-> FALSE]
  /\ tmp = [p \in Procs |-> 0]
  /\ stackInit = FALSE
  /\ cbRegistered = FALSE
  /\ peers = 0
  /\ pending = 0
  /\ dht = <<>>
  /\ ticks = spent
  /\ sends = 0
  /\ outcomes = 0
  /\ rejects = 0
  /\ resets = 0
  /\ crossings = 0
  /\ initResults = <<>>
  /\ backoffs = 0
  /\ lastEvent = "none"
  /\ resetTrace = <<>>
  /\ sinceFire = -1
  /\ gap = -1
  /\ lastFireTick = Tick(0)
  /\ firedThisIter = FALSE
  /\ cycleTrace = <<>>

Init == InitWith(0)

\* ============================================================ readSensors
\* lines 69-83: a DHT fault keeps the previous values, or the defaults when the
\* stored temperature is still 0.0
ReadSensors(sd, temp, hum) ==
  IF temp = NaN \/ hum = NaN
    THEN IF sd.temperature = 0
           THEN [temperature |-> 25, humidity |-> 50]
           ELSE sd
    ELSE [temperature |-> temp[1], humidity |-> hum[1]]

\* ============================================================ initESPNow
\* return statement of initESPNow: back to the caller with the result
InitReturn(self, val) ==
  /\ initRes' = [initRes EXCEPT ![self] = val]
  /\ Goto(self, IF self = "main" THEN "setup_287r" ELSE "cb_ret")
  /\ lastEvent' = IF val THEN "ok" ELSE "fail"

\* lines 158-178: radio mode, channel, esp_now_init
Init173(self) ==
  /\ pc[self] = "init_173"
  /\ \E ok \in BOOLEAN :
       IF ok
         THEN /\ stackInit' = TRUE
              /\ Goto(self, "init_183")
              /\ UNCHANGED <<espNowConnected, initRes, lastEvent>>
         ELSE /\ espNowConnected' = FALSE
              /\ InitReturn(self, FALSE)
              /\ UNCHANGED stackInit
  /\ UNCHANGED <<lastSendTime, successCount, failureCount, sensorData, now,
                 currentTime, attempt, initSuccess, tmp, cbRegistered, peers,
                 pending>>
  /\ UNCHANGED <<ticks, sends, outcomes, rejects, resets, crossings,
                 initResults, backoffs, resetTrace, sinceFire, gap,
                 lastFireTick, firedThisIter>>
  /\ UNCHANGED dht
  /\ UNCHANGED cycleTrace

\* lines 183-187: esp_now_register_send_cb; on failure espNowConnected is
\* left as it is
Init183(self) ==
  /\ pc[self] = "init_183"
  /\ \E ok \in BOOLEAN :
       IF ok
         THEN /\ cbRegistered' = TRUE
              /\ Goto(self, "init_198")
              /\ UNCHANGED <<initRes, lastEvent>>
         ELSE /\ InitReturn(self, FALSE)
              /\ UNCHANGED cbRegistered
  /\ UNCHANGED <<espNowConnected, lastSendTime, successCount, failureCount,
                 sensorData, now, currentTime, attempt, initSuccess, tmp,
                 stackInit, peers, pending>>
  /\ UNCHANGED <<ticks, sends, outcomes, rejects, resets, crossings,
                 initResults, backoffs, resetTrace, sinceFire, gap,
                 lastFireTick, firedThisIter>>
  /\ UNCHANGED dht
  /\ UNCHANGED cycleTrace

\* (mutation of Init198: an existing peer entry is left in place)
Init198_KeepsPeer(self) ==
  /\ pc[self] = "init_198"
  /\ Goto(self, "init_205")
  /\ UNCHANGED <<espNowConnected, lastSendTime, successCount, failureCount,
                 sensorData, now, currentTime, attempt, initSuccess, initRes,
                 tmp, stackInit, cbRegistered, peers, pending>>
  /\ UNCHANGED histVars
  /\ UNCHANGED dht

\* lines 198-202: a peer that is already registered is removed first
Init198(self) ==
  /\ pc[self] = "init_198"
  /\ peers' = IF peers > 0 THEN peers - 1 ELSE peers
  /\ Goto(self, "init_205")
  /\ UNCHANGED <<espNowConnected, lastSendTime, successCount, failureCount,
                 sensorData, now, currentTime, attempt, initSuccess, initRes,
                 tmp, stackInit, cbRegistered, pending>>
  /\ UNCHANGED histVars
  /\ UNCHANGED dht

\* lines 205-210: esp_now_add_peer; the radio refuses an address that is
\* already in the list, and may refuse for its own reasons
Init205(self) ==
  /\ pc[self] = "init_205"
  /\ \E ok \in BOOLEAN :
       IF ok /\ peers = 0
         THEN /\ peers' = peers + 1
              /\ Goto(self, "init_212")
              /\ UNCHANGED <<espNowConnected, initRes, lastEvent>>
         ELSE /\ espNowConnected' = FALSE
              /\ InitReturn(self, FALSE)
              /\ UNCHANGED peers
  /\ UNCHANGED <<lastSendTime, successCount, failureCount, sensorData, now,
                 currentTime, attempt, initSuccess, tmp, stackInit,
                 cbRegistered, pending>>
  /\ UNCHANGED <<ticks, sends, outcomes, rejects, resets, crossings,
                 initResults, backoffs, resetTrace, sinceFire, gap,
                 lastFireTick, firedThisIter>>
  /\ UNCHANGED dht
  /\ UNCHANGED cycleTrace

\* lines 212-222
Init212(self) ==
  /\ pc[self] = "init_212"
  /\ espNowConnected' = TRUE
  /\ InitReturn(self, TRUE)
  /\ UNCHANGED <<lastSendTime, successCount, failureCount, sensorData, now,
                 currentTime, attempt, initSuccess, tmp, stackInit,
                 cbRegistered, peers, pending>>
  /\ UNCHANGED <<ticks, sends, outcomes, rejects, resets, crossings,
                 initResults, backoffs, resetTrace, sinceFire, gap,
                 lastFireTick, firedThisIter>>
  /\ UNCHANGED dht
  /\ UNCHANGED cycleTrace

initESPNow(self) ==
  Init173(self) \/ Init183(self) \/ Init198(self) \/ Init205(self)
    \/ Init212(self)

InInit(self) ==
  pc[self] \in {"init_173", "init_183", "init_198", "init_205", "init_212"}

\* ============================================================ setup
\* (mutation of RetryAllowed: the loop runs one time too many)
RetryAllowed_OffByOne(a) == a <= MAX_INIT_RETRIES + 1

\* line 284: the loop condition of the retry loop
RetryAllowed(a) == a <= MAX_INIT_RETRIES

\* line 292: a backoff delay follows a failed attempt unless it was the last
BackoffDue(a) == a < MAX_INIT_RETRIES

mainOnly(label) == pc["main"] = label

\* lines 283-284: initSuccess = false; attempt = 1
Setup283 ==
  /\ mainOnly("setup_283")
  /\ initSuccess' = FALSE
  /\ attempt' = 1
  /\ Goto("main", "setup_284")
  /\ UNCHANGED <<espNowConnected, lastSendTime, successCount, failureCount,
                 sensorData, now, currentTime, initRes, tmp, stackInit,
                 cbRegistered, peers, pending>>
  /\ UNCHANGED histVars
  /\ UNCHANGED dht

\* lines 284-287: loop test, then the call of initESPNow
Setup284 ==
  /\ mainOnly("setup_284")
  /\ IF RetryAllowed(attempt)
       THEN Goto("main", "init_173")
       ELSE Goto("main", "setup_313")
  /\ UNCHANGED <<espNowConnected, lastSendTime, successCount, failureCount,
                 sensorData, now, currentTime, attempt, initSuccess, initRes,
                 tmp, stackInit, cbRegistered, peers, pending>>
  /\ UNCHANGED histVars
  /\ UNCHANGED dht

\* lines 287-290: the result of the call; success leaves the loop
Setup287r ==
  /\ mainOnly("setup_287r")
  /\ initResults' = Append(initResults, initRes["main"])
  /\ IF initRes["main"]
       THEN /\ initSuccess' = TRUE
            /\ Goto("main", "setup_313")
       ELSE /\ Goto("main", "setup_292")
            /\ UNCHANGED initSuccess
  /\ initRes' = [initRes EXCEPT !["main"] = FALSE]
  /\ UNCHANGED <<espNowConnected, lastSendTime, successCount, failureCount,
                 sensorData, now, currentTime, attempt, tmp, stackInit,
                 cbRegistered, peers, pending>>
  /\ UNCHANGED <<ticks, sends, outcomes, rejects, resets, crossings, backoffs,
                 lastEvent, resetTrace, sinceFire, gap, lastFireTick,
                 firedThisIter>>
  /\ UNCHANGED dht
  /\ UNCHANGED cycleTrace

\* lines 292-296 and the attempt++ of line 284
Setup292 ==
  /\ mainOnly("setup_292")
  /\ backoffs' = IF BackoffDue(attempt) THEN backoffs + 1 ELSE backoffs
  /\ attempt' = attempt + 1
  /\ Goto("main", "setup_284")
  /\ UNCHANGED <<espNowConnected, lastSendTime, successCount, failureCount,
                 sensorData, now, currentTime, initSuccess, initRes, tmp,
                 stackInit, cbRegistered, peers, pending>>
  /\ UNCHANGED <<ticks, sends, outcomes, rejects, resets, crossings,
                 initResults, lastEvent, resetTrace, sinceFire, gap,
                 lastFireTick, firedThisIter>>
  /\ UNCHANGED dht
  /\ UNCHANGED cycleTrace

\* lines 298-317: status output, then the record's defaults
Setup313 ==
  /\ mainOnly("setup_313")
  /\ sensorData' = [temperature |-> 0, humidity |-> 0]
  /\ Goto("main", "setup_321")
  /\ UNCHANGED <<espNowConnected, lastSendTime, successCount, failureCount,
                 now, currentTime, attempt, initSuccess, initRes, tmp,
                 stackInit, cbRegistered, peers, pending>>
  /\ UNCHANGED histVars
  /\ UNCHANGED dht

\* line 321: the initial readSensors(), its two DHT reads (lines 69-70)
Setup321 ==
  /\ mainOnly("setup_321")
  /\ \E temp \in TempReadings, hum \in HumReadings : dht' = <<temp, hum>>
  /\ Goto("main", "setup_321s")
  /\ UNCHANGED <<espNowConnected, lastSendTime, successCount, failureCount,
                 sensorData, now, currentTime, attempt, initSuccess, initRes,
                 tmp, stackInit, cbRegistered, peers, pending>>
  /\ UNCHANGED histVars

\* lines 73-83 for the call of line 321, then setup() returns, which ends the
\* life of its loop counter (initSuccess is kept: it tells how startup ended)
Setup321s ==
  /\ mainOnly("setup_321s")
  /\ sensorData' = ReadSensors(sensorData, dht[1], dht[2])
  /\ dht' = <<>>
  /\ attempt' = 0
  /\ initResults' = <<>>
  /\ backoffs' = 0
  /\ Goto("main", "loop_327")
  /\ UNCHANGED <<espNowConnected, lastSendTime, successCount, failureCount,
                 now, currentTime, initSuccess, initRes, tmp, stackInit,
                 cbRegistered, peers, pending>>
  /\ UNCHANGED <<ticks, sends, outcomes, rejects, resets, crossings,
                 lastEvent, resetTrace, sinceFire, gap, lastFireTick,
                 firedThisIter, cycleTrace>>

setup ==
  \/ Setup283 \/ Setup284 \/ Setup287r \/ Setup292 \/ Setup313 \/ Setup321
  \/ Setup321s

\* ============================================================ loop
\* lines 330-332: the overflow guard's new value of lastSendTime
WrapGuard(cur, last) == IF TickLess(cur, last) THEN cur ELSE last

\* (mutation of ShouldSend: the interval is left out of the comparison)
ShouldSend_NoInterval(cur, last) == ~TickLess(cur, last)

\* line 335: unsigned 32-bit subtraction, compared with the interval
ShouldSend(cur, last) == ~TickLess(TickSub(cur, last), Tick(SEND_INTERVAL))

\* real time since the last firing, d ms later (kept up to one interval)
Later(s, d) == IF s = -1 THEN -1 ELSE Min(s + d, SEND_INTERVAL)

\* line 327: currentTime = millis(); d ms have passed since the last reading
Loop327 ==
  /\ mainOnly("loop_327")
  /\ \E d \in TickSteps :
       /\ ticks + d <= MaxIntervals * SEND_INTERVAL
       /\ now' = TickAdd(now, Tick(d))
       /\ ticks' = ticks + d
       /\ sinceFire' = Later(sinceFire, d)
  /\ currentTime' = now'
  /\ firedThisIter' = FALSE
  /\ cycleTrace' = <<>>
  /\ Goto("main", "loop_330")
  /\ UNCHANGED <<espNowConnected, lastSendTime, successCount, failureCount,
                 sensorData, attempt, initSuccess, initRes, tmp, stackInit,
                 cbRegistered, peers, pending>>
  /\ UNCHANGED <<sends, outcomes, rejects, resets, crossings, initResults,
                 backoffs, lastEvent, resetTrace, gap, lastFireTick>>
  /\ UNCHANGED dht

\* lines 330-332
Loop330 ==
  /\ mainOnly("loop_330")
  /\ lastSendTime' = WrapGuard(currentTime, lastSendTime)
  /\ Goto("main", "loop_335")
  /\ UNCHANGED <<espNowConnected, successCount, failureCount, sensorData, now,
                 currentTime, attempt, initSuccess, initRes, tmp, stackInit,
                 cbRegistered, peers, pending>>
  /\ UNCHANGED histVars
  /\ UNCHANGED dht

\* (mutation of AfterStamp: the cycle goes straight to sendData)
AfterStamp_NoSample == "send_229"

\* lines 336-339: the statement that follows the stamp is readSensors()
AfterStamp == "loop_339"

\* lines 335-336: the firing test and lastSendTime = currentTime
Loop335 ==
  /\ mainOnly("loop_335")
  /\ IF ShouldSend(currentTime, lastSendTime)
       THEN /\ lastSendTime' = currentTime
            /\ gap' = sinceFire
            /\ sinceFire' = 0
            /\ lastFireTick' = currentTime
            /\ firedThisIter' = TRUE
            /\ cycleTrace' = <<"stamp">>
            /\ Goto("main", AfterStamp)
       ELSE /\ Goto("main", "loop_350")
            /\ UNCHANGED <<lastSendTime, gap, sinceFire, lastFireTick,
                           firedThisIter, cycleTrace>>
  /\ UNCHANGED <<espNowConnected, successCount, failureCount, sensorData, now,
                 currentTime, attempt, initSuccess, initRes, tmp, stackInit,
                 cbRegistered, peers, pending>>
  /\ UNCHANGED <<ticks, sends, outcomes, rejects, resets, crossings,
                 initResults, backoffs, lastEvent, resetTrace>>
  /\ UNCHANGED dht

\* the history variables a step of the send cycle leaves alone
cycleFrame == <<ticks, sends, outcomes, rejects, resets, crossings, initResults,
                backoffs, lastEvent, resetTrace, sinceFire, gap, lastFireTick,
                firedThisIter>>

\* line 339: readSensors(), its two DHT reads (lines 69-70)
Loop339 ==
  /\ mainOnly("loop_339")
  /\ \E temp \in TempReadings, hum \in HumReadings : dht' = <<temp, hum>>
  /\ cycleTrace' = Append(cycleTrace, "readSensors")
  /\ Goto("main", "loop_339s")
  /\ UNCHANGED <<espNowConnected, lastSendTime, successCount, failureCount,
                 sensorData, now, currentTime, attempt, initSuccess, initRes,
                 tmp, stackInit, cbRegistered, peers, pending>>
  /\ UNCHANGED cycleFrame

\* lines 73-83 for the call of line 339: the record is updated
Loop339s ==
  /\ mainOnly("loop_339s")
  /\ sensorData' = ReadSensors(sensorData, dht[1], dht[2])
  /\ dht' = <<>>
  /\ Goto("main", "send_229")
  /\ UNCHANGED <<espNowConnected, lastSendTime, successCount, failureCount,
                 now, currentTime, attempt, initSuccess, initRes, tmp,
                 stackInit, cbRegistered, peers, pending>>
  /\ UNCHANGED histVars

\* line 350: delay(50), back to the top of loop()
Loop350 ==
  /\ mainOnly("loop_350")
  /\ Goto("main", "loop_327")
  /\ UNCHANGED <<espNowConnected, lastSendTime, successCount, failureCount,
                 sensorData, now, currentTime, attempt, initSuccess, initRes,
                 tmp, stackInit, cbRegistered, peers, pending>>
  /\ UNCHANGED histVars
  /\ UNCHANGED dht

\* ============================================================ sendData
\* (mutation of SendGate: sendData never skips)
SendGate_Open(connected) == TRUE

\* line 229: the gate on the optimistic flag
SendGate(connected) == connected

\* the radio can take a transmission: stack up, peer known, queue not full
RadioAccepts == stackInit /\ peers > 0 /\ pending < MaxPending

\* one more failure makes the counter a positive multiple of 5
Crossed(old, new) ==
  IF new # old /\ new > 0 /\ new % RESET_EVERY = 0 THEN 1 ELSE 0

\* lines 229-232 (and the status line 345 when the send is skipped)
Send229 ==
  /\ mainOnly("send_229")
  /\ cycleTrace' = Append(cycleTrace, "sendData")
  /\ IF SendGate(espNowConnected)
       THEN Goto("main", "send_236")
       ELSE Goto("main", "loop_350")
  /\ UNCHANGED <<espNowConnected, lastSendTime, successCount, failureCount,
                 sensorData, now, currentTime, attempt, initSuccess, initRes,
                 tmp, stackInit, cbRegistered, peers, pending>>
  /\ UNCHANGED cycleFrame
  /\ UNCHANGED dht

\* lines 236-241: esp_now_send and the test of its result
Send236 ==
  /\ mainOnly("send_236")
  /\ sends < MaxSends
  /\ sends' = sends + 1
  /\ cycleTrace' = Append(cycleTrace, "esp_now_send")
  /\ \E ok \in BOOLEAN :
       IF ok /\ RadioAccepts
         THEN /\ pending' = pending + 1
              /\ Goto("main", "loop_350")
              /\ UNCHANGED rejects
         ELSE /\ rejects' = rejects + 1
              /\ Goto("main", "send_242r")
              /\ UNCHANGED pending
  /\ UNCHANGED <<espNowConnected, lastSendTime, successCount, failureCount,
                 sensorData, now, currentTime, attempt, initSuccess, initRes,
                 tmp, stackInit, cbRegistered, peers>>
  /\ UNCHANGED <<ticks, outcomes, resets, crossings, initResults, backoffs,
                 lastEvent, resetTrace, sinceFire, gap, lastFireTick,
                 firedThisIter>>
  /\ UNCHANGED dht

\* line 242, failureCount++: the load
Send242r ==
  /\ mainOnly("send_242r")
  /\ tmp' = [tmp EXCEPT !["main"] = failureCount]
  /\ Goto("main", "send_242w")
  /\ UNCHANGED <<espNowConnected, lastSendTime, successCount, failureCount,
                 sensorData, now, currentTime, attempt, initSuccess, initRes,
                 stackInit, cbRegistered, peers, pending>>
  /\ UNCHANGED histVars
  /\ UNCHANGED dht

\* line 242, failureCount++: the store
Send242w ==
  /\ mainOnly("send_242w")
  /\ failureCount' = tmp["main"] + 1
  /\ tmp' = [tmp EXCEPT !["main"] = 0]
  /\ crossings' = crossings + Crossed(failureCount, failureCount')
  /\ Goto("main", "loop_350")
  /\ UNCHANGED <<espNowConnected, lastSendTime, successCount, sensorData, now,
                 currentTime, attempt, initSuccess, initRes, stackInit,
                 cbRegistered, peers, pending>>
  /\ UNCHANGED <<ticks, sends, outcomes, rejects, resets, initResults,
                 backoffs, lastEvent, resetTrace, sinceFire, gap,
                 lastFireTick, firedThisIter>>
  /\ UNCHANGED dht
  /\ UNCHANGED cycleTrace

sendData == Send229 \/ Send236 \/ Send242r \/ Send242w

loop ==
  \/ Loop327 \/ Loop330 \/ Loop335 \/ Loop339 \/ Loop339s \/ Loop350
  \/ sendData

\* ============================================================ OnDataSent
cbOnly(label) == pc["cb"] = label

\* (mutation of ConnectedAfter: the failure branch does not clear the flag)
ConnectedAfter_Stuck(status) == TRUE

\* lines 133 and 138: the flag follows the outcome
ConnectedAfter(status) == status = "Success"

\* (mutation of ThresholdHit: every failure from the fifth on resets)
ThresholdHit_Reached(f) == f >= RESET_EVERY

\* line 144: the reset threshold
ThresholdHit(f) == f % RESET_EVERY = 0

\* (mutation of AfterDeinit: the settle delay is skipped)
AfterDeinit_NoDelay == "cb_148"

\* lines 146-148: what follows esp_now_deinit and what follows the delay
AfterDeinit == "cb_147"
AfterSettle == "cb_148"

\* lines 129-133 / 137-138: entry of OnDataSent with one delivery outcome;
\* the flag is written first (left: transmissions still awaiting an outcome)
HandleOutcome(left) ==
  /\ pending' = left
  /\ outcomes' = outcomes + 1
  /\ resetTrace' = <<>>
  /\ \E status \in {"Success", "Failure"} :
       /\ espNowConnected' = ConnectedAfter(status)
       /\ lastEvent' = IF status = "Success" THEN "ok" ELSE "fail"
       /\ Goto("cb", IF status = "Success" THEN "cb_134r" ELSE "cb_139r")
  /\ UNCHANGED <<lastSendTime, successCount, failureCount, sensorData, now,
                 currentTime, attempt, initSuccess, initRes, tmp, stackInit,
                 cbRegistered, peers>>
  /\ UNCHANGED <<ticks, sends, rejects, resets, crossings, initResults,
                 backoffs, sinceFire, gap, lastFireTick, firedThisIter>>
  /\ UNCHANGED dht
  /\ UNCHANGED cycleTrace

\* the radio task reports the outcome of one accepted transmission to the
\* registered callback (line 183)
OnDataSent ==
  /\ cbOnly("cb_idle")
  /\ cbRegistered
  /\ pending > 0
  /\ HandleOutcome(pending - 1)

\* line 134, successCount++: the load
Cb134r ==
  /\ cbOnly("cb_134r")
  /\ tmp' = [tmp EXCEPT !["cb"] = successCount]
  /\ Goto("cb", "cb_134w")
  /\ UNCHANGED <<espNowConnected, lastSendTime, successCount, failureCount,
                 sensorData, now, currentTime, attempt, initSuccess, initRes,
                 stackInit, cbRegistered, peers, pending>>
  /\ UNCHANGED histVars
  /\ UNCHANGED dht

\* line 134, successCount++: the store; the callback returns
Cb134w ==
  /\ cbOnly("cb_134w")
  /\ successCount' = tmp["cb"] + 1
  /\ tmp' = [tmp EXCEPT !["cb"] = 0]
  /\ Goto("cb", "cb_idle")
  /\ UNCHANGED <<espNowConnected, lastSendTime, failureCount, sensorData, now,
                 currentTime, attempt, initSuccess, initRes, stackInit,
                 cbRegistered, peers, pending>>
  /\ UNCHANGED histVars
  /\ UNCHANGED dht

\* line 139, failureCount++: the load
Cb139r ==
  /\ cbOnly("cb_139r")
  /\ tmp' = [tmp EXCEPT !["cb"] = failureCount]
  /\ Goto("cb", "cb_139w")
  /\ UNCHANGED <<espNowConnected, lastSendTime, successCount, failureCount,
                 sensorData, now, currentTime, attempt, initSuccess, initRes,
                 stackInit, cbRegistered, peers, pending>>
  /\ UNCHANGED histVars
  /\ UNCHANGED dht

\* line 139, failureCount++: the store
Cb139w ==
  /\ cbOnly("cb_139w")
  /\ failureCount' = tmp["cb"] + 1
  /\ tmp' = [tmp EXCEPT !["cb"] = 0]
  /\ crossings' = crossings + Crossed(failureCount, failureCount')
  /\ Goto("cb", "cb_144")
  /\ UNCHANGED <<espNowConnected, lastSendTime, successCount, sensorData, now,
                 currentTime, attempt, initSuccess, initRes, stackInit,
                 cbRegistered, peers, pending>>
  /\ UNCHANGED <<ticks, sends, outcomes, rejects, resets, initResults,
                 backoffs, lastEvent, resetTrace, sinceFire, gap,
                 lastFireTick, firedThisIter>>
  /\ UNCHANGED dht
  /\ UNCHANGED cycleTrace

\* line 144: every fifth failure starts a restart of the stack
Cb144 ==
  /\ cbOnly("cb_144")
  /\ IF ThresholdHit(failureCount)
       THEN Goto("cb", "cb_146")
       ELSE Goto("cb", "cb_idle")
  /\ UNCHANGED <<espNowConnected, lastSendTime, successCount, failureCount,
                 sensorData, now, currentTime, attempt, initSuccess, initRes,
                 tmp, stackInit, cbRegistered, peers, pending>>
  /\ UNCHANGED histVars
  /\ UNCHANGED dht

\* (mutation of Cb146: the teardown also clears the two counters)
Cb146_ClearsCounters ==
  /\ cbOnly("cb_146")
  /\ stackInit' = FALSE
  /\ cbRegistered' = FALSE
  /\ peers' = 0
  /\ pending' = 0
  /\ successCount' = 0
  /\ failureCount' = 0
  /\ resets' = resets + 1
  /\ resetTrace' = Append(resetTrace, "deinit")
  /\ Goto("cb", AfterDeinit)
  /\ UNCHANGED <<espNowConnected, lastSendTime, sensorData, now, currentTime,
                 attempt, initSuccess, initRes, tmp>>
  /\ UNCHANGED <<ticks, sends, outcomes, rejects, crossings, initResults,
                 backoffs, lastEvent, sinceFire, gap, lastFireTick,
                 firedThisIter>>
  /\ UNCHANGED dht
  /\ UNCHANGED cycleTrace

\* line 146: esp_now_deinit drops the stack with its callback, peer list and
\* queued transmissions
Cb146 ==
  /\ cbOnly("cb_146")
  /\ stackInit' = FALSE
  /\ cbRegistered' = FALSE
  /\ peers' = 0
  /\ pending' = 0
  /\ resets' = resets + 1
  /\ resetTrace' = Append(resetTrace, "deinit")
  /\ Goto("cb", AfterDeinit)
  /\ UNCHANGED <<espNowConnected, lastSendTime, successCount, failureCount,
                 sensorData, now, currentTime, attempt, initSuccess, initRes,
                 tmp>>
  /\ UNCHANGED <<ticks, sends, outcomes, rejects, crossings, initResults,
                 backoffs, lastEvent, sinceFire, gap, lastFireTick,
                 firedThisIter>>
  /\ UNCHANGED dht
  /\ UNCHANGED cycleTrace

\* line 147: delay(1000)
Cb147 ==
  /\ cbOnly("cb_147")
  /\ resetTrace' = Append(resetTrace, "delay")
  /\ Goto("cb", AfterSettle)
  /\ UNCHANGED <<espNowConnected, lastSendTime, successCount, failureCount,
                 sensorData, now, currentTime, attempt, initSuccess, initRes,
                 tmp, stackInit, cbRegistered, peers, pending>>
  /\ UNCHANGED <<ticks, sends, outcomes, rejects, resets, crossings,
                 initResults, backoffs, lastEvent, sinceFire, gap,
                 lastFireTick, firedThisIter>>
  /\ UNCHANGED dht
  /\ UNCHANGED cycleTrace

\* line 148: the call of initESPNow
Cb148 ==
  /\ cbOnly("cb_148")
  /\ resetTrace' = Append(resetTrace, "init")
  /\ Goto("cb", "init_173")
  /\ UNCHANGED <<espNowConnected, lastSendTime, successCount, failureCount,
                 sensorData, now, currentTime, attempt, initSuccess, initRes,
                 tmp, stackInit, cbRegistered, peers, pending>>
  /\ UNCHANGED <<ticks, sends, outcomes, rejects, resets, crossings,
                 initResults, backoffs, lastEvent, sinceFire, gap,
                 lastFireTick, firedThisIter>>
  /\ UNCHANGED dht
  /\ UNCHANGED cycleTrace

\* lines 148-151: initESPNow has returned (its result is dropped); the
\* callback returns
CbRet ==
  /\ cbOnly("cb_ret")
  /\ initRes' = [initRes EXCEPT !["cb"] = FALSE]
  /\ Goto("cb", "cb_idle")
  /\ UNCHANGED <<espNowConnected, lastSendTime, successCount, failureCount,
                 sensorData, now, currentTime, attempt, initSuccess, tmp,
                 stackInit, cbRegistered, peers, pending>>
  /\ UNCHANGED histVars
  /\ UNCHANGED dht

cbBody ==
  Cb134r \/ Cb134w \/ Cb139r \/ Cb139w \/ Cb144 \/ Cb146 \/ Cb147 \/ Cb148
    \/ CbRet

\* ============================================================ system
MainStep == setup \/ loop \/ initESPNow("main")
CbStep == cbBody \/ initESPNow("cb")

Next == MainStep \/ OnDataSent \/ CbStep

Spec == Init /\ [][Next]_vars

\* ---- the same program with ticks that advance forever: line 350 again, with
\* millis() moving on during the delay, here by a quarter of its range so that
\* the state space stays finite
FairTick ==
  /\ mainOnly("loop_350")
  /\ now' = TickAdd(now, QuarterRange)
  /\ sinceFire' = Later(sinceFire, SEND_INTERVAL)
  /\ Goto("main", "loop_327")
  /\ UNCHANGED <<espNowConnected, lastSendTime, successCount,
                 failureCount, sensorData, currentTime, attempt, initSuccess,
                 initRes, tmp, stackInit, cbRegistered, peers, pending>>
  /\ UNCHANGED <<ticks, sends, outcomes, rejects, resets, crossings,
                 initResults, backoffs, lastEvent, resetTrace, gap,
                 lastFireTick, firedThisIter>>
  /\ UNCHANGED dht
  /\ UNCHANGED cycleTrace

FairNext == Next \/ FairTick

\* the budget of small tick steps is spent: time advances by FairTick alone
FairInit == InitWith(MaxIntervals * SEND_INTERVAL)

\* loop() runs forever, the radio task finishes every callback it starts and
\* reports every outcome, and time keeps advancing during the delays of loop()
FairSpec ==
  /\ FairInit
  /\ [][FairNext]_vars
  /\ WF_vars(MainStep)
  /\ WF_vars(CbStep)
  /\ WF_vars(OnDataSent)
  /\ SF_vars(FairTick)

\* ---- the outcome handler on its own: the sender is up (startup succeeded,
\* first reading faulted, loop() idle in its delay) and OnDataSent is invoked
\* with one outcome after another, whatever the state of the link
HandlerInit ==
  /\ pc = [p \in Procs |-> IF p = "main" THEN "loop_350" ELSE "cb_idle"]
  /\ espNowConnected = TRUE
  /\ lastSendTime = Tick(0)
  /\ successCount = 0
  /\ failureCount = 0
  /\ sensorData = [temperature |-> 25, humidity |-> 50]
  /\ now = Tick(0)
  /\ currentTime = Tick(0)
  /\ attempt = 0
  /\ initSuccess = TRUE
  /\ initRes = [p \in Procs |-> FALSE]
  /\ tmp = [p \in Procs |-> 0]
  /\ stackInit = TRUE
  /\ cbRegistered = TRUE
  /\ peers = 1
  /\ pending = 0
  /\ dht = <<>>
  /\ ticks = 0
  /\ sends = 0
  /\ outcomes = 0
  /\ rejects = 0
  /\ resets = 0
  /\ crossings = 0
  /\ initResults = <<>>
  /\ backoffs = 0
  /\ lastEvent = "ok"
  /\ resetTrace = <<>>
  /\ sinceFire = -1
  /\ gap = -1
  /\ lastFireTick = Tick(0)
  /\ firedThisIter = FALSE
  /\ cycleTrace = <<>>

\* OnDataSent called with the next outcome
HandlerCall ==
  /\ cbOnly("cb_idle")
  /\ outcomes < MaxOutcomes
  /\ HandleOutcome(pending)

HandlerNext == HandlerCall \/ CbStep

HandlerSpec == HandlerInit /\ [][HandlerNext]_vars

\* ---- the bring-up on its own: setup() calls initESPNow again after every
\* return, successful or not, up to MaxInitCalls times (the retry loop without
\* its break), so that the registration also runs with the peer already known
InitAgain ==
  /\ mainOnly("setup_287r")
  /\ attempt < MaxInitCalls
  /\ attempt' = attempt + 1
  /\ initResults' = Append(initResults, initRes["main"])
  /\ initRes' = [initRes EXCEPT !["main"] = FALSE]
  /\ Goto("main", "init_173")
  /\ UNCHANGED <<espNowConnected, lastSendTime, successCount, failureCount,
                 sensorData, now, currentTime, initSuccess, tmp, stackInit,
                 cbRegistered, peers, pending, dht>>
  /\ UNCHANGED <<ticks, sends, outcomes, rejects, resets, crossings, backoffs,
                 lastEvent, resetTrace, sinceFire, gap, lastFireTick,
                 firedThisIter, cycleTrace>>

BringUpNext == Setup283 \/ Setup284 \/ initESPNow("main") \/ InitAgain

BringUpSpec == Init /\ [][BringUpNext]_vars

\* ============================================================ properties
\* nothing is in progress: the callback is not running, no outcome is due and
\* loop() is at its idle delay
Quiet == cbOnly("cb_idle") /\ pending = 0 /\ mainOnly("loop_350")

\* C1: every time failureCount becomes a positive multiple of 5 exactly one
\* link reset is performed, and none is performed otherwise: whenever nothing
\* is in progress, the resets made equal the multiples of 5 reached.
C1_ResetPerMultiple == Quiet => resets = crossings

\* C2: successCount + failureCount equals the number of delivery outcomes
\* handed to the callback so far (compared whenever the callback is not
\* running), and no step makes either counter smaller.
C2_CountersMatchOutcomes ==
  /\ [](cbOnly("cb_idle") => successCount + failureCount = outcomes)
  /\ [][successCount' >= successCount /\ failureCount' >= failureCount]_vars

\* C3: loop() fires on the first iteration whose unsigned elapsed time since
\* the last firing (since tick 0 before the first) reaches SEND_INTERVAL, also
\* across the wraparound: no iteration reaches its end without having fired
\* while that elapsed time is SEND_INTERVAL or more, and (C4_MinGap) none fires
\* early.
C3_FiresWhenDue ==
  (mainOnly("loop_350") /\ ~firedThisIter)
    => TickLess(TickSub(currentTime, lastFireTick), Tick(SEND_INTERVAL))

\* C4: two consecutive firings of loop() are at least SEND_INTERVAL ms of
\* real time apart, whatever ticks the iterations observe (the same tick
\* repeatedly, or ticks across the wraparound); one iteration firing twice
\* would show as a gap of 0.
C4_MinGap == gap = -1 \/ gap >= SEND_INTERVAL

\* a second firing has just happened, a full interval after the first
C4_Witness ==
  /\ mainOnly("loop_339")
  /\ gap >= SEND_INTERVAL
  /\ ticks > SEND_INTERVAL

\* setup() has left its retry loop and loop() has not started
SetupLoopDone == pc["main"] \in {"setup_313", "setup_321", "setup_321s"}

\* attempts that failed and were not the last allowed one
FailedEarly ==
  {i \in DOMAIN initResults : ~initResults[i] /\ i < MAX_INIT_RETRIES}

\* C5: setup() calls initESPNow at most MAX_INIT_RETRIES times, every call
\* before the last one made has failed, one backoff delay follows each failed
\* call that is not the last allowed one, and when the loop is left the link
\* is ready exactly if the last call succeeded (otherwise all
\* MAX_INIT_RETRIES calls were made).
C5_BoundedRetry ==
  /\ Len(initResults) <= MAX_INIT_RETRIES
  /\ \A i \in DOMAIN initResults : i < Len(initResults) => ~initResults[i]
  /\ ~mainOnly("setup_292") => backoffs = Cardinality(FailedEarly)
  /\ SetupLoopDone =>
       /\ Len(initResults) >= 1
       /\ initSuccess = initResults[Len(initResults)]
       /\ espNowConnected = initSuccess
       /\ ~initSuccess => Len(initResults) = MAX_INIT_RETRIES

\* two failed attempts, then a successful third: 3 attempts, 2 backoffs, ready
C5_Witness ==
  /\ SetupLoopDone
  /\ initResults = <<FALSE, FALSE, TRUE>>
  /\ backoffs = 2
  /\ espNowConnected

\* the radio can carry a transmission: stack initialised and peer registered
LinkUsable == stackInit /\ peers > 0

\* C6: sendData never calls esp_now_send while the link is not usable: every
\* step that executes line 236 starts in a state where the stack is
\* initialised and the peer is registered.
C6_SendOnlyWhenUsable ==
  [][(mainOnly("send_236") /\ pc'["main"] # "send_236") => LinkUsable]_vars

\* C7: the callback never tears down or reinitialises the radio stack: no
\* esp_now_deinit has been executed by OnDataSent and initESPNow is not running
\* in the callback's context.
C7_ResetDeferred == resets = 0 /\ ~InInit("cb")

\* C8: within the budget of sends, send cycles fire infinitely often and, when
\* startup succeeded, esp_now_send is attempted infinitely often.
C8_KeepsSending ==
  \/ <>(sends = MaxSends)
  \/ /\ []<>mainOnly("loop_339")
     /\ (<>initSuccess) => []<>mainOnly("send_236")

ResetSteps == <<"deinit", "delay", "init">>

\* C9: a link reset is esp_now_deinit, then the settle delay, then one call of
\* initESPNow, in this order and nothing more; when that call returns,
\* espNowConnected is its result.
C9_ResetSequence ==
  /\ \E n \in 0..Len(ResetSteps) : resetTrace = SubSeq(ResetSteps, 1, n)
  /\ cbOnly("cb_idle") => resetTrace \in {<<>>, ResetSteps}
  /\ cbOnly("cb_ret") =>
       /\ resetTrace = ResetSteps
       /\ espNowConnected = initRes["cb"]

\* a reset whose reinitialisation succeeded has just returned
C9_Witness == cbOnly("cb_ret") /\ initRes["cb"] /\ resets = 1

\* C10: outside a running initESPNow, espNowConnected tells whether the most
\* recent initESPNow result or delivery outcome was a success (false when
\* there has been none).
C10_FlagFollowsLastEvent ==
  (~InInit("main") /\ ~InInit("cb")) => espNowConnected = (lastEvent = "ok")

\* a reset's initESPNow has failed at the registration of the send callback
C10_Witness ==
  /\ cbOnly("cb_ret")
  /\ stackInit
  /\ ~cbRegistered
  /\ lastEvent = "fail"
  /\ ~espNowConnected

\* ---------------------------------------------------------------- C11
\* main is executing loop() (sendData included)
InLoop ==
  pc["main"] \in {"loop_327", "loop_330", "loop_335", "loop_339", "loop_339s",
                  "loop_350", "send_229", "send_236", "send_242r", "send_242w"}

\* setup()'s retry loop was left with every attempt failed
StartupFailed == ~initSuccess /\ (SetupLoopDone \/ InLoop)

\* C11: once all MAX_INIT_RETRIES startup attempts have failed the link stays
\* down for good: espNowConnected is false, sendData never gets past its
\* gate (no esp_now_send is ever called, no outcome ever arrives), and
\* neither setup()/loop() nor the outcome handler runs initESPNow again or
\* resets the link.
C11_FailedIsTerminal ==
  StartupFailed =>
    /\ ~espNowConnected
    /\ pc["main"] \notin {"send_236", "send_242r", "send_242w"}
    /\ sends = 0
    /\ outcomes = 0
    /\ resets = 0
    /\ failureCount = 0
    /\ cbOnly("cb_idle")
    /\ ~InInit("main")

\* after a failed startup, a second or later send cycle has fired, sampled
\* the sensors and skipped its send
C11_Witness ==
  /\ StartupFailed
  /\ mainOnly("loop_350")
  /\ cycleTrace = <<"stamp", "readSensors", "sendData">>
  /\ ticks >= 2 * SEND_INTERVAL

\* ---------------------------------------------------------------- C12
\* C12: with the handler receiving outcomes one after another from
\* failureCount = 0, the link has been reset once per five Failure outcomes:
\* never before the fifth, exactly once by the time the handling of the fifth
\* (tenth, ...) is over, whether the reinitialisation of a reset succeeded or
\* not.
C12_ResetEveryFifth ==
  /\ resets <= failureCount \div RESET_EVERY
  /\ cbOnly("cb_idle") =>
       /\ failureCount = outcomes - successCount
       /\ resets = failureCount \div RESET_EVERY

\* ten Failure outcomes in a row have been handled, with two resets, and a
\* reinitialisation has failed
C12_Witness ==
  /\ cbOnly("cb_idle")
  /\ successCount = 0
  /\ failureCount = 2 * RESET_EVERY
  /\ outcomes = 2 * RESET_EVERY
  /\ resets = 2
  /\ ~stackInit

\* ---------------------------------------------------------------- C13
\* C13: registering the peer is idempotent: whenever esp_now_add_peer is
\* called the address is not in the peer list (an existing entry has been
\* removed first), so the add is never refused for a duplicate, and after any
\* successful initESPNow, the first or a repeated one, the list holds exactly
\* one entry for the address.
C13_RegistrationIdempotent ==
  /\ peers <= 1
  /\ mainOnly("init_205") => peers = 0
  /\ (mainOnly("setup_287r") /\ initRes["main"]) => peers = 1

\* initESPNow has succeeded twice in a row and one entry is registered
C13_Witness ==
  /\ mainOnly("setup_287r")
  /\ initRes["main"]
  /\ Len(initResults) >= 1
  /\ initResults[Len(initResults)]
  /\ peers = 1

\* ---------------------------------------------------------------- C14
\* main is about to execute lines 73-83 of readSensors
AtStore == pc["main"] \in {"setup_321s", "loop_339s"}

\* C14: the step of readSensors that updates the record never leaves a NaN
\* in it, and when the temperature read was a fault and the humidity read was
\* valid, the record's humidity is the humidity just read.
C14_FallbackKeepsHumidity ==
  [][(AtStore /\ dht' = <<>>) =>
       /\ sensorData'.temperature \in Nat
       /\ sensorData'.humidity \in Nat
       /\ (dht[1] = NaN /\ dht[2] # NaN) => sensorData'.humidity = dht[2][1]
    ]_vars

\* ---------------------------------------------------------------- C15
\* the callback is inside the reset of lines 145-148 (teardown, settle delay,
\* initESPNow and its return)
InReset == pc["cb"] \in {"cb_146", "cb_147", "cb_148", "cb_ret"} \/ InInit("cb")

\* C15: no step of a link reset (esp_now_deinit, the delay, any statement of
\* the initESPNow it calls) changes successCount or failureCount.
C15_ResetKeepsCounters ==
  [][(InReset /\ pc'["cb"] # pc["cb"]) =>
       (successCount' = successCount /\ failureCount' = failureCount)]_vars

\* a reset has run to the return of its initESPNow with both counters
\* non-zero: the fifth failure and an earlier success are still counted
C15_Witness ==
  /\ cbOnly("cb_ret")
  /\ resets = 1
  /\ failureCount = RESET_EVERY
  /\ successCount > 0

\* ---------------------------------------------------------------- C16
\* neither context is between the report of an event and the store of the
\* counter that counts it
NoIncrementInFlight ==
  /\ pc["main"] \notin {"send_242r", "send_242w"}
  /\ pc["cb"] \notin {"cb_134r", "cb_134w", "cb_139r", "cb_139w"}

\* C16: no counter update is lost: whenever no increment is in progress,
\* successCount is at most the number of outcomes handled and failureCount
\* is the number of the remaining (Failure) outcomes plus the number of
\* synchronously rejected sends.
C16_NoLostUpdate ==
  NoIncrementInFlight =>
    /\ successCount <= outcomes
    /\ failureCount = (outcomes - successCount) + rejects

\* ---------------------------------------------------------------- C17
\* main executes one statement of sendData
SendDataStep ==
  /\ pc["main"] \in {"send_229", "send_236", "send_242r", "send_242w"}
  /\ pc'["main"] # pc["main"]

\* the step leaves the link alone: flag, success counter, radio stack and
\* the callback's position (no teardown or reinitialisation is started)
LinkLeftAlone ==
  /\ UNCHANGED <<espNowConnected, successCount, stackInit, cbRegistered, peers,
                 resets>>
  /\ pc'["cb"] = pc["cb"]

\* C17: a statement of sendData leaves the link alone and changes
\* failureCount only by the increment of line 242, which adds one; the send
\* skipped at the gate changes neither counter nor the queue.
C17_RejectionOnlyCounts ==
  [][SendDataStep =>
       /\ LinkLeftAlone
       /\ failureCount' =
            IF pc["main"] = "send_242w" THEN failureCount + 1 ELSE failureCount
       /\ (pc["main"] = "send_229" /\ pc'["main"] = "loop_350") =>
            UNCHANGED <<pending, sends, rejects>>
    ]_vars

\* the part of C17 that does not depend on the increment being atomic
SendDataFrame == [][SendDataStep => LinkLeftAlone]_vars

\* ---------------------------------------------------------------- C18
\* the steps of a send cycle, in the order of loop() and sendData
CycleSteps == <<"stamp", "readSensors", "sendData", "esp_now_send">>

IsPrefix(s, t) == Len(s) <= Len(t) /\ s = SubSeq(t, 1, Len(s))

\* main has finished the send cycle (if any) of the current loop iteration
CycleOver ==
  pc["main"] \in {"loop_350", "send_242r", "send_242w"}
    \/ (mainOnly("loop_327") /\ firedThisIter)

\* C18: a loop iteration that fires stamps lastSendTime with the current
\* tick, then calls readSensors once, then sendData once, which calls
\* esp_now_send at most once; an iteration that does not fire does none of
\* these; the sampling is there whether or not the send is skipped.
C18_SampleThenSend ==
  /\ IsPrefix(cycleTrace, CycleSteps)
  /\ firedThisIter <=> cycleTrace # <<>>
  /\ mainOnly("loop_339") => (cycleTrace = <<"stamp">> /\ lastSendTime = currentTime)
  /\ (CycleOver /\ firedThisIter) => Len(cycleTrace) >= 3
  /\ pc["main"] \in {"send_242r", "send_242w"} => cycleTrace = CycleSteps

\* the link went down after an earlier send, and the cycle that just ended
\* stamped, sampled and called sendData, which skipped the transmission
C18_Witness ==
  /\ mainOnly("loop_350")
  /\ cycleTrace = SubSeq(CycleSteps, 1, 3)
  /\ initSuccess
  /\ sends > 0
  /\ ~espNowConnected

====
